---- MODULE Spec2Model ----
\* Feedback pipeline of the serverless backend: Submission Intake (postFeedback),
\* the SNS topic / SQS queue / dead-letter queue, the Enrichment Worker
\* (processFeedback), the Recommendations table and the request handlers over it.
EXTENDS Integers, Sequences, FiniteSets, TLC

VARIABLES
  now,      \* the wall clock read by Date.now() and new Date()
  msgs,     \* the messages of FeedbackQueue, by message id: [body, rc, loc]
  store,    \* the items of the Recommendations table (at most one per key)
  batch,    \* the worker invocation's event.Records, as message ids (<<>> when idle)
  idx,      \* position of the worker's for-loop in batch
  results,  \* the worker's results object: [successful, failed]
  wlast,    \* what the worker's last loop iteration did: [id, class, outcome, item]
  wend,     \* how the last worker invocation ended: "none", "running", "returned", "raised"
  upd,      \* the running updateRecommendation invocation, between its Get and its Update
  del,      \* the running deleteRecommendations invocation, between its batches
  puts,     \* by message id, how many times the worker has put an item for the message
  resp,     \* the last response of a request handler, with the client calls it made
  visibleAt, \* timed queue: by message id, when the message's visibility timeout ends
  workers   \* timed queue: the concurrent worker invocations, [pc, ids, started]

vars == <<now, msgs, store, batch, idx, results, wlast, wend, puts, upd, del, resp,
          visibleAt, workers>>

\* the state of the timed queue, which only the timed specification changes
timed == <<visibleAt, workers>>

----------------------------------------------------------------------------
\* Bounds of the model

MaxPad == 1      \* whitespace characters before and after a text
MaxClock == 2    \* clock values 1..MaxClock
MaxMsgs == 2     \* messages ever sent to the queue in a pipeline run
MaxBatch == 3    \* messages of the queue in a single-invocation run
MaxItems == 1    \* items of a model response array
MaxRecords == 57 \* Records of one owner in a bulk-delete run
MaxArray == 2    \* items of a model response array in an end-to-end run
MaxWorkers == 2  \* concurrent worker invocations of the timed queue
TickSeconds == 5 \* the step of the clock of the timed queue, in seconds
MaxSeconds == 310 \* the horizon of the timed queue, in seconds

\* Program constants

MaxFeedbackLength == 10000
maxReceiveCount == 3
batchSize == 10
MaxTitleLength == 100
MaxDescriptionLength == 500
visibilityTimeoutSeconds == 300
workerTimeoutSeconds == 300
maxBatchingWindowSeconds == 5
deleteBatchSize == 25

Min(a, b) == IF a < b THEN a ELSE b

----------------------------------------------------------------------------
\* JavaScript values. A string is its content word, the whitespace around it and
\* the length of the part between the first and last non-blank character.

Undefined == [t |-> "undefined"]
Null == [t |-> "null"]
NaN == [t |-> "nan"]
Bool(b) == [t |-> "boolean", v |-> b]
Num(n) == [t |-> "number", v |-> n]
Arr(s) == [t |-> "array", v |-> s]
LongStr(w, lead, core, trail) ==
  [t |-> "string", word |-> w, lead |-> lead, core |-> core, trail |-> trail]
Str(w) == LongStr(w, 0, Len(w), 0)

IsString(x) == x.t = "string"
IsArray(x) == x.t = "array"

\* s.length
Length(s) == s.lead + s.core + s.trail

\* !x
Falsy(x) ==
  \/ x.t \in {"undefined", "null", "nan"}
  \/ x.t = "boolean" /\ ~x.v
  \/ x.t = "number" /\ x.v = 0
  \/ x.t = "string" /\ Length(x) = 0

\* a || b
OrElse(a, b) == IF Falsy(a) THEN b ELSE a

\* s.trim(): a string of blanks only has core 0 and trims to the empty string
Trim(s) ==
  IF s.core = 0 THEN LongStr(s.word, 0, 0, 0) ELSE LongStr(s.word, 0, s.core, 0)

\* s.substring(0, n): the first n characters
Substring(s, n) ==
  LET lead == Min(s.lead, n)
      core == Min(s.core, n - lead)
      trail == Min(s.trail, n - lead - core)
  IN LongStr(s.word, lead, core, trail)

\* String(x): a string is itself, any other value prints as some text
StringOf(x) == IF IsString(x) THEN x ELSE Str(x.t)

\* JSON texts (non-empty strings): JSON.parse throws on InvalidJson and on anything
\* that is not a JSON text, and returns the value of the others.
InvalidJson == [t |-> "jsontext", ok |-> FALSE]
JsonStringify(value) == [t |-> "jsontext", ok |-> TRUE, value |-> value]
JsonParses(text) == text.t = "jsontext" /\ text.ok
JsonParse(text) == text.value

----------------------------------------------------------------------------
\* Responses of the request handlers

Call(api, arg, ok) == [api |-> api, arg |-> arg, ok |-> ok]

ErrorBody(error, message) == [error |-> error, message |-> message]

Response(statusCode, body, calls) ==
  [statusCode |-> statusCode, body |-> body, calls |-> calls]

Unauthorized ==
  Response(401, ErrorBody("Unauthorized", "User ID not found in authentication context"), <<>>)

BadRequest(message, calls) == Response(400, ErrorBody("Bad Request", message), calls)

InternalErrorBare(message, calls) ==
  Response(500, [error |-> "Internal Server Error"], calls)

InternalError(message, calls) ==
  Response(500, ErrorBody("Internal Server Error", message), calls)

\* event.requestContext?.authorizer?.claims?.sub
UserIdOf(event) == event.sub

\* if (!userId), the first check of every request handler
NoIdentityStrict(userId) == userId = Undefined
NoIdentity(userId) == Falsy(userId)

\* JSON.parse(event.body || '{}')
EmptyObject == [t |-> "object"]
BodyText(event) == OrElse(event.body, JsonStringify(EmptyObject))

\* obj.f: undefined when the object has no such property
Field(obj, f) == IF f \in DOMAIN obj THEN obj[f] ELSE Undefined

----------------------------------------------------------------------------
\* Submission Intake: postFeedback.handler

\* the SNS message built from a validated request
FeedbackMessage(userId, requestBody, t) ==
  [userId |-> userId,
   feedback |-> Trim(Field(requestBody, "feedback")),
   timestamp |-> Num(t),
   tags |-> OrElse(Field(requestBody, "tags"), Arr(<<>>)),
   feedbackType |-> OrElse(Field(requestBody, "feedbackType"), Str("general"))]

\* the feedback checks; TRUE when the request is rejected
InvalidFeedbackUntrimmed(feedback) == Falsy(feedback) \/ ~IsString(feedback)
InvalidFeedback(feedback) ==
  \/ Falsy(feedback)
  \/ ~IsString(feedback)
  \/ Length(Trim(feedback)) = 0

FeedbackTooLongOffByOne(feedback) == Length(feedback) >= MaxFeedbackLength
FeedbackTooLong(feedback) == Length(feedback) > MaxFeedbackLength

InvalidTags(tags) == tags # Undefined /\ ~IsArray(tags)

\* sns = [ok, MessageId]: whether snsClient.send resolves, and with which id
postFeedback(event, t, sns) ==
  LET userId == UserIdOf(event) IN
  IF NoIdentity(userId) THEN Unauthorized
  ELSE IF ~JsonParses(BodyText(event))
  THEN BadRequest("Invalid JSON in request body", <<>>)
  ELSE LET requestBody == JsonParse(BodyText(event)) IN
    IF requestBody = Null
    THEN InternalError("Failed to submit feedback for processing", <<>>)
    ELSE IF InvalidFeedback(Field(requestBody, "feedback"))
    THEN BadRequest("Feedback text is required and must be a non-empty string", <<>>)
    ELSE IF FeedbackTooLong(Field(requestBody, "feedback"))
    THEN BadRequest("Feedback text must not exceed 10,000 characters", <<>>)
    ELSE IF InvalidTags(Field(requestBody, "tags"))
    THEN BadRequest("Tags must be an array of strings", <<>>)
    ELSE LET publish ==
               Call("Publish", JsonStringify(FeedbackMessage(userId, requestBody, t)), sns.ok)
         IN IF ~sns.ok
            THEN InternalError("Failed to submit feedback for processing", <<publish>>)
            ELSE Response(202,
                          [message |-> "Feedback submitted successfully for processing",
                           messageId |-> sns.MessageId,
                           status |-> "processing"],
                          <<publish>>)

----------------------------------------------------------------------------
\* Dispatch Channel: FeedbackTopic -> FeedbackQueue -> FeedbackDLQ

\* The topic's SqsSubscription (rawMessageDelivery: false) wraps the published
\* Message in a notification envelope, which becomes the body of the queue message.
SnsEnvelope(message) == JsonStringify([Type |-> "Notification", Message |-> message])

QueueMessage(body) == [body |-> body, rc |-> 0, loc |-> "queue"]

\* the queue messages that result from a handler's successful Publish calls
RECURSIVE Deliveries(_)
Deliveries(calls) ==
  IF calls = <<>> THEN <<>>
  ELSE LET c == Head(calls) IN
       (IF c.api = "Publish" /\ c.ok THEN <<QueueMessage(SnsEnvelope(c.arg))>> ELSE <<>>)
       \o Deliveries(Tail(calls))

PostFeedback(event, snsOk) ==
  /\ UNCHANGED timed
  /\ LET r == postFeedback(event, now, [ok |-> snsOk, MessageId |-> Len(msgs) + 1]) IN
     /\ Len(msgs) + Len(Deliveries(r.calls)) <= MaxMsgs
     /\ msgs' = msgs \o Deliveries(r.calls)
     /\ puts' = puts \o [i \in DOMAIN Deliveries(r.calls) |-> 0]
     /\ resp' = [op |-> "postFeedback", event |-> event, r |-> r]
     /\ UNCHANGED <<now, store, batch, idx, results, wlast, wend, upd, del>>

\* another sender to the queue: the body is whatever it sent
PublishForeign(body) ==
  /\ UNCHANGED timed
  /\ /\ Len(msgs) < MaxMsgs
     /\ msgs' = Append(msgs, QueueMessage(body))
     /\ puts' = Append(puts, 0)
     /\ UNCHANGED <<now, store, batch, idx, results, wlast, wend, upd, del, resp>>

\* time passes
Tick ==
  /\ UNCHANGED timed
  /\ /\ now < MaxClock
     /\ now' = now + 1
     /\ UNCHANGED <<msgs, store, batch, idx, results, wlast, wend, puts, upd, del, resp>>

----------------------------------------------------------------------------
\* Record Store: the Recommendations table, partition key userId (STRING),
\* sort key timestamp (NUMBER)

KeyOf(item) == <<item.userId, item.timestamp>>

\* the table accepts an item only with key attributes of the declared types
ValidKey(item) == IsString(item.userId) /\ item.timestamp.t = "number"

PutAppend(table, item) == table \cup {item}
\* PutCommand: creates the item or replaces the item at the same key
Put(table, item) == {r \in table : KeyOf(r) # KeyOf(item)} \cup {item}

ItemsOfEveryone(table, userId) == table
\* Query with KeyConditionExpression userId = :userId
ItemsOf(table, userId) == {r \in table : r.userId = userId}

\* new Date().toISOString() at clock value t; ISO strings order as their instants do
IsoString(t) == [t |-> "isodate", v |-> t]

BEDROCK_MODEL_ID == Str("anthropic.claude-3-sonnet-20240229-v1:0")

----------------------------------------------------------------------------
\* Enrichment Worker: processFeedback.js

\* A response of bedrockClient.send: it rejects ("error"), or resolves with a text
\* (responseBody.content[0].text, '' when absent) that is a JSON text or not, and
\* is wrapped in a markdown code fence or not.
BedrockError == [kind |-> "error"]
BedrockText(fenced, payload) == [kind |-> "text", fenced |-> fenced, payload |-> payload]

\* recommendationsText.replace(/```json\n?/g, '').replace(/```\n?/g, '').trim()
StripFences(response) == response.payload

FallbackRecommendations(t) ==
  Arr(<<[id |-> <<"rec-fallback", t>>,
         title |-> Str("Review and analyze feedback"),
         description |-> Str("A detailed analysis of this feedback is recommended to identify specific areas for improvement."),
         priority |-> Str("medium"),
         category |-> Str("general")]>>)

Priorities == {Str("high"), Str("medium"), Str("low")}

\* the callback of recommendations.map
Sanitize(rec, t, index) ==
  [id |-> <<"rec", t, index>>,
   title |-> Substring(StringOf(OrElse(rec.title, Str("Recommendation"))), MaxTitleLength),
   description |-> Substring(StringOf(OrElse(rec.description, Str(""))), MaxDescriptionLength),
   priority |-> IF rec.priority \in Priorities THEN rec.priority ELSE Str("medium"),
   category |-> StringOf(OrElse(rec.category, Str("general")))]

\* what makes the try block of generateRecommendations throw
InferenceThrows(response) ==
  \/ response.kind = "error"
  \/ ~JsonParses(StripFences(response))
  \/ ~IsArray(JsonParse(StripFences(response)))
  \/ \E i \in DOMAIN JsonParse(StripFences(response)).v :
        JsonParse(StripFences(response)).v[i] \in {Null, Undefined}

\* a function that throws returns Thrown
Thrown == [t |-> "thrown"]

generateRecommendationsThrowsNonArray(response, t) ==
  IF response.kind = "text" /\ JsonParses(StripFences(response))
     /\ ~IsArray(JsonParse(StripFences(response)))
  THEN Thrown
  ELSE IF InferenceThrows(response) THEN FallbackRecommendations(t)
  ELSE LET recommendations == JsonParse(StripFences(response)).v IN
       Arr([i \in DOMAIN recommendations |-> Sanitize(recommendations[i], t, i - 1)])

generateRecommendationsEmptyOnError(response, t) ==
  IF InferenceThrows(response) THEN Arr(<<>>)
  ELSE LET recommendations == JsonParse(StripFences(response)).v IN
       Arr([i \in DOMAIN recommendations |-> Sanitize(recommendations[i], t, i - 1)])

generateRecommendationsRethrows(response, t) ==
  IF InferenceThrows(response) THEN Thrown
  ELSE LET recommendations == JsonParse(StripFences(response)).v IN
       Arr([i \in DOMAIN recommendations |-> Sanitize(recommendations[i], t, i - 1)])

\* the whole body is in a try block whose catch returns the fallback
generateRecommendations(response, t) ==
  IF InferenceThrows(response) THEN FallbackRecommendations(t)
  ELSE LET recommendations == JsonParse(StripFences(response)).v IN
       Arr([i \in DOMAIN recommendations |-> Sanitize(recommendations[i], t, i - 1)])

\* JSON.parse(record.body), JSON.parse(snsMessage.Message) or the destructuring
\* of message throws
ParseThrows(body) ==
  \/ ~JsonParses(body)
  \/ JsonParse(body) = Null
  \/ ~JsonParses(JsonParse(body).Message)
  \/ JsonParse(JsonParse(body).Message) = Null

MessageOf(body) == JsonParse(JsonParse(body).Message)

\* the check after the destructuring: the record is counted failed and skipped
InvalidMessageUserOnly(message) == Falsy(message.userId)
InvalidMessage(message) == Falsy(message.userId) \/ Falsy(message.feedback)

\* putParams.Item
Item(message, recommendations, t) ==
  [userId |-> message.userId,
   timestamp |-> OrElse(message.timestamp, Num(t)),
   feedbackType |-> OrElse(message.feedbackType, Str("general")),
   originalFeedback |-> message.feedback,
   recommendations |-> recommendations,
   generatedAt |-> IsoString(t),
   modelId |-> BEDROCK_MODEL_ID,
   tags |-> OrElse(message.tags, Arr(<<>>)),
   completed |-> Bool(FALSE),
   updatedAt |-> IsoString(t)]

\* how the response of the model is classed in the worker's log
ResponseClass(response) ==
  IF response.kind = "error" THEN "error"
  ELSE IF ~JsonParses(response.payload) THEN "unparsable"
  ELSE IF ~IsArray(JsonParse(response.payload)) THEN "nonArray"
  ELSE IF \E i \in DOMAIN JsonParse(response.payload).v :
            JsonParse(response.payload).v[i] \in {Null, Undefined} THEN "badItem"
  ELSE "array"

\* The Lambda poller takes a batch of visible messages from the queue and invokes
\* the handler with it; a message already received maxReceiveCount times is not
\* delivered again.
DeliverableAlways(m) == m.loc = "queue"
Deliverable(m) == m.loc = "queue" /\ m.rc < maxReceiveCount

IsBatch(b) ==
  /\ Len(b) >= 1
  /\ Len(b) <= batchSize
  /\ \A i \in DOMAIN b : b[i] \in DOMAIN msgs /\ Deliverable(msgs[b[i]])
  /\ \A i, j \in DOMAIN b : i < j => b[i] < b[j]

LogEntry(id, class, outcome, item) ==
  [id |-> id, class |-> class, outcome |-> outcome, item |-> item]

NoItem == [t |-> "none"]
NoEntry == LogEntry(0, "none", "none", NoItem)

InBatch(b, id) == \E i \in DOMAIN b : b[i] = id

Receive(b) ==
  /\ UNCHANGED timed
  /\ /\ wend # "running"
     /\ IsBatch(b)
     /\ msgs' = [id \in DOMAIN msgs |->
                   IF InBatch(b, id)
                   THEN [msgs[id] EXCEPT !.rc = @ + 1, !.loc = "inflight"]
                   ELSE msgs[id]]
     /\ batch' = b
     /\ idx' = 1
     /\ results' = [successful |-> <<>>, failed |-> <<>>]
     /\ wlast' = NoEntry
     /\ wend' = "running"
     /\ UNCHANGED <<now, store, puts, upd, del, resp>>

\* a catch block that does not rethrow: the record is counted failed and the loop goes on
RaiseSwallowed(entry, error) ==
  /\ results' = [results EXCEPT !.failed = Append(@, [messageId |-> batch[idx], error |-> error])]
  /\ wlast' = entry
  /\ idx' = idx + 1
  /\ UNCHANGED <<now, msgs, store, batch, wend, puts, upd, del, resp>>

\* the catch block rethrows and the handler rejects: the invocation fails, nothing of
\* the batch is deleted from the queue and all its messages become visible again
Raise(entry, error) ==
  /\ results' = [results EXCEPT !.failed = Append(@, [messageId |-> batch[idx], error |-> error])]
  /\ wlast' = entry
  /\ wend' = "raised"
  /\ msgs' = [id \in DOMAIN msgs |->
                IF InBatch(batch, id) THEN [msgs[id] EXCEPT !.loc = "queue"] ELSE msgs[id]]
  /\ UNCHANGED <<now, store, batch, idx, puts, upd, del, resp>>

\* one iteration of the for-loop over event.Records
ProcessRecord(response, putOk) ==
  /\ UNCHANGED timed
  /\ /\ wend = "running"
     /\ idx <= Len(batch)
     /\ LET id == batch[idx]
            body == msgs[id].body
        IN IF ParseThrows(body)
           THEN Raise(LogEntry(id, "none", "parseThrew", NoItem), "parse")
           ELSE LET message == MessageOf(body) IN
             IF InvalidMessage(message)
             THEN /\ results' = [results EXCEPT !.failed =
                                   Append(@, [messageId |-> id, error |-> "Invalid message format"])]
                  /\ wlast' = LogEntry(id, "none", "invalid", NoItem)
                  /\ idx' = idx + 1
                  /\ UNCHANGED <<now, msgs, store, batch, wend, puts, upd, del, resp>>
             ELSE LET recommendations == generateRecommendations(response, now)
                      item == Item(message, recommendations, now)
                  IN
               IF recommendations = Thrown
               THEN Raise(LogEntry(id, ResponseClass(response), "inferenceThrew", NoItem), "inference")
               ELSE IF ~(putOk /\ ValidKey(item))
               THEN Raise(LogEntry(id, ResponseClass(response), "putThrew", item), "put")
               ELSE /\ store' = Put(store, item)
                    /\ results' = [results EXCEPT !.successful =
                                     Append(@, [messageId |-> id, userId |-> message.userId])]
                    /\ wlast' = LogEntry(id, ResponseClass(response), "saved", item)
                    /\ puts' = [puts EXCEPT ![id] = @ + 1]
                    /\ idx' = idx + 1
                    /\ UNCHANGED <<now, msgs, batch, wend, upd, del, resp>>

\* the loop is over: the handler returns 200 and the poller deletes the batch
WorkerReturn ==
  /\ UNCHANGED timed
  /\ /\ wend = "running"
     /\ idx > Len(batch)
     /\ wend' = "returned"
     /\ msgs' = [id \in DOMAIN msgs |->
                   IF InBatch(batch, id) THEN [msgs[id] EXCEPT !.loc = "deleted"] ELSE msgs[id]]
     /\ UNCHANGED <<now, store, batch, idx, results, wlast, puts, upd, del, resp>>

\* the redrive policy: a message received maxReceiveCount times and still in the
\* queue moves to FeedbackDLQ
RedriveNever(id) == FALSE /\ UNCHANGED vars

Redrive(id) ==
  /\ UNCHANGED timed
  /\ /\ id \in DOMAIN msgs
     /\ msgs[id].loc = "queue"
     /\ msgs[id].rc >= maxReceiveCount
     /\ msgs' = [msgs EXCEPT ![id].loc = "dlq"]
     /\ UNCHANGED <<now, store, batch, idx, results, wlast, wend, puts, upd, del, resp>>

----------------------------------------------------------------------------
\* Query Surface: getRecommendations, searchRecommendations, updateRecommendation,
\* deleteRecommendations

\* the items of a set, by timestamp: descending (ScanIndexForward: false) or ascending
RECURSIVE Sorted(_, _)
Sorted(items, descending) ==
  IF items = {} THEN <<>>
  ELSE LET first == CHOOSE r \in items : \A q \in items :
                      IF descending THEN q.timestamp.v <= r.timestamp.v
                                    ELSE q.timestamp.v >= r.timestamp.v
       IN <<first>> \o Sorted(items \ {first}, descending)

getRecommendationsAscending(event, table, queryOk) ==
  LET userId == UserIdOf(event) IN
  IF NoIdentity(userId) THEN Unauthorized
  ELSE LET query == Call("Query", userId, queryOk) IN
    IF ~queryOk THEN InternalError("Failed to retrieve recommendations", <<query>>)
    ELSE LET Items == Sorted(ItemsOf(table, userId), FALSE) IN
      Response(200, [recommendations |-> Items, count |-> Len(Items)], <<query>>)

\* QueryCommand on the partition of the caller, ScanIndexForward false
getRecommendations(event, table, queryOk) ==
  LET userId == UserIdOf(event) IN
  IF NoIdentity(userId) THEN Unauthorized
  ELSE LET query == Call("Query", userId, queryOk) IN
    IF ~queryOk THEN InternalError("Failed to retrieve recommendations", <<query>>)
    ELSE LET Items == Sorted(ItemsOf(table, userId), TRUE) IN
      Response(200, [recommendations |-> Items, count |-> Len(Items)], <<query>>)

GetRecommendations(event, queryOk) ==
  /\ UNCHANGED timed
  /\ /\ resp' = [op |-> "getRecommendations", event |-> event,
                 r |-> getRecommendations(event, store, queryOk)]
     /\ UNCHANGED <<now, msgs, store, batch, idx, results, wlast, wend, puts, upd, del>>

\* new Date(s).getTime(): a date string carries its instant in the field epoch
DateTime(s) == IF "epoch" \in DOMAIN s THEN Num(s.epoch) ELSE NaN

\* tags.split(',').map(t => t.trim()).filter(t => t): a comma-separated string
\* carries its parts in the field parts
RECURSIVE TrimAll(_)
TrimAll(parts) ==
  IF parts = <<>> THEN <<>>
  ELSE (IF Falsy(Trim(Head(parts))) THEN <<>> ELSE <<Trim(Head(parts))>>) \o TrimAll(Tail(parts))

TagArray(tags) == TrimAll(IF "parts" \in DOMAIN tags THEN tags.parts ELSE <<tags>>)

\* contains(#tags, :tag) on a list attribute
ContainsTag(item, tag) ==
  IsArray(item.tags) /\ \E i \in DOMAIN item.tags.v : item.tags.v[i] = tag

\* s.toLowerCase(), over the words of the model
LowerCase(w) ==
  IF w = "Slow" THEN "slow" ELSE IF w = "SLOW" THEN "slow" ELSE w

\* the strings of JSON.stringify(item.recommendations || []): its keys and values
SerializedWords(recommendations) ==
  IF ~IsArray(recommendations) THEN {}
  ELSE UNION {{"id", "title", "description", "priority", "category",
               LowerCase(recommendations.v[i].title.word),
               LowerCase(recommendations.v[i].description.word),
               LowerCase(recommendations.v[i].priority.word),
               LowerCase(recommendations.v[i].category.word)} :
              i \in DOMAIN recommendations.v}

\* the in-memory text filter of an item
TextMatches(item, search) ==
  \/ LowerCase(search.word) \in SerializedWords(item.recommendations)
  \/ IsString(item.originalFeedback)
       /\ LowerCase(search.word) = LowerCase(item.originalFeedback.word)
       /\ search.lead = 0 /\ search.trail = 0

FilterMatchesAllTags(item, q) ==
  /\ (~Falsy(q.fromDate) /\ DateTime(q.fromDate) # NaN)
       => item.timestamp.v >= DateTime(q.fromDate).v
  /\ (~Falsy(q.toDate) /\ DateTime(q.toDate) # NaN)
       => item.timestamp.v <= DateTime(q.toDate).v
  /\ ~Falsy(q.feedbackType) => item.feedbackType = q.feedbackType
  /\ q.completed # Undefined => item.completed = Bool(q.completed = Str("true"))
  /\ (~Falsy(q.tags) /\ TagArray(q.tags) # <<>>)
       => \A i \in DOMAIN TagArray(q.tags) : ContainsTag(item, TagArray(q.tags)[i])

\* the FilterExpression built from the query parameters, applied to an item
FilterMatches(item, q) ==
  /\ (~Falsy(q.fromDate) /\ DateTime(q.fromDate) # NaN)
       => item.timestamp.v >= DateTime(q.fromDate).v
  /\ (~Falsy(q.toDate) /\ DateTime(q.toDate) # NaN)
       => item.timestamp.v <= DateTime(q.toDate).v
  /\ ~Falsy(q.feedbackType) => item.feedbackType = q.feedbackType
  /\ q.completed # Undefined => item.completed = Bool(q.completed = Str("true"))
  /\ (~Falsy(q.tags) /\ TagArray(q.tags) # <<>>)
       => \E i \in DOMAIN TagArray(q.tags) : ContainsTag(item, TagArray(q.tags)[i])

\* the attributes the handler enters in ExpressionAttributeNames, which starts as {}
FilterNames(q) ==
  (IF \/ (~Falsy(q.fromDate) /\ DateTime(q.fromDate) # NaN)
      \/ (~Falsy(q.toDate) /\ DateTime(q.toDate) # NaN)
   THEN {"timestamp"} ELSE {})
  \cup (IF ~Falsy(q.feedbackType) THEN {"feedbackType"} ELSE {})
  \cup (IF q.completed # Undefined THEN {"completed"} ELSE {})
  \cup (IF ~Falsy(q.tags) /\ TagArray(q.tags) # <<>> THEN {"tags"} ELSE {})

\* the key attributes of the table: partition key and sort key
TableKeys == {"userId", "timestamp"}

QueryRejectedNever(q) == FALSE
\* The table service validates a Query before it runs it. It rejects one whose
\* ExpressionAttributeNames is an empty map ("ExpressionAttributeNames must not be
\* empty") and one whose FilterExpression names a key attribute ("Filter Expression
\* can only contain non-primary key attributes"); docClient.send then throws.
QueryRejected(q) == FilterNames(q) = {} \/ FilterNames(q) \cap TableKeys # {}

NoQuery ==
  [search |-> Undefined, tags |-> Undefined, completed |-> Undefined,
   feedbackType |-> Undefined, fromDate |-> Undefined, toDate |-> Undefined]

searchRecommendations(event, table, queryOk) ==
  LET userId == UserIdOf(event) IN
  IF NoIdentity(userId) THEN Unauthorized
  ELSE LET q == IF event.queryStringParameters = Null THEN NoQuery
                ELSE event.queryStringParameters
           query == Call("Query", <<userId, q>>, queryOk /\ ~QueryRejected(q))
       IN
    IF ~queryOk \/ QueryRejected(q)
    THEN InternalError("Failed to search recommendations", <<query>>)
    ELSE LET found == {r \in ItemsOf(table, userId) : FilterMatches(r, q)}
             kept == IF ~Falsy(q.search) /\ ~Falsy(Trim(q.search))
                     THEN {r \in found : TextMatches(r, q.search)}
                     ELSE found
             recommendations == Sorted(kept, TRUE)
         IN Response(200,
                     [recommendations |-> recommendations,
                      count |-> Len(recommendations),
                      filters |-> q],
                     <<query>>)

SearchRecommendations(event, queryOk) ==
  /\ UNCHANGED timed
  /\ /\ resp' = [op |-> "searchRecommendations", event |-> event,
                 r |-> searchRecommendations(event, store, queryOk)]
     /\ UNCHANGED <<now, msgs, store, batch, idx, results, wlast, wend, puts, upd, del>>

Idle == [pc |-> "idle"]

\* parseInt(event.pathParameters?.timestamp): a numeric string carries its value
\* in the field int
ParseInt(x) == IF "int" \in DOMAIN x THEN Num(x.int) ELSE NaN

\* the fields of the UpdateExpression, without updatedAt
UpdateFields(requestBody) ==
  {f \in {"completed", "recommendations", "feedbackType"} : Field(requestBody, f) # Undefined}
  \cup (IF Field(requestBody, "tags") # Undefined /\ IsArray(Field(requestBody, "tags"))
        THEN {"tags"} ELSE {})

NoValidFieldsNever(requestBody) == FALSE
\* updateExpressions.length === 1: only updatedAt
NoValidFields(requestBody) == UpdateFields(requestBody) = {}

\* UpdateCommand with SET: the item at the key with the fields set, and an item
\* of the key and the fields alone when there is none
KeyItem(userId, timestamp) == [userId |-> userId, timestamp |-> timestamp]

UpdatedStale(old, requestBody, t) ==
  [f \in DOMAIN old \cup UpdateFields(requestBody) |->
     IF f \in UpdateFields(requestBody) THEN requestBody[f] ELSE old[f]]

UpdatedReplacing(old, requestBody, t) ==
  [f \in {"userId", "timestamp"} \cup UpdateFields(requestBody) \cup {"updatedAt"} |->
     IF f = "updatedAt" THEN IsoString(t)
     ELSE IF f \in UpdateFields(requestBody) THEN requestBody[f]
     ELSE old[f]]

Updated(old, requestBody, t) ==
  [f \in DOMAIN old \cup UpdateFields(requestBody) \cup {"updatedAt"} |->
     IF f = "updatedAt" THEN IsoString(t)
     ELSE IF f \in UpdateFields(requestBody) THEN requestBody[f]
     ELSE old[f]]

ItemAtAnyOwner(table, userId, timestamp) ==
  {r \in table : r.timestamp = timestamp}
\* GetCommand with Key {userId, timestamp}
ItemAt(table, userId, timestamp) ==
  {r \in table : KeyOf(r) = <<userId, timestamp>>}

\* the handler up to the answer of GetCommand
UpdateStart(event, getOk) ==
  /\ UNCHANGED timed
  /\ /\ upd.pc = "idle"
     /\ LET userId == UserIdOf(event)
            timestamp == ParseInt(event.timestamp)
            get == Call("Get", <<userId, timestamp>>, getOk)
            answer(r) == /\ resp' = [op |-> "updateRecommendation", event |-> event, r |-> r]
                         /\ upd' = upd
        IN IF NoIdentity(userId) THEN answer(Unauthorized)
           ELSE IF Falsy(timestamp)
           THEN answer(BadRequest("Invalid or missing timestamp in path", <<>>))
           ELSE IF ~JsonParses(BodyText(event))
           THEN answer(BadRequest("Invalid JSON in request body", <<>>))
           ELSE IF ~getOk
           THEN answer(InternalError("Failed to update recommendation", <<get>>))
           ELSE IF ItemAt(store, userId, timestamp) = {}
           THEN answer(Response(404, ErrorBody("Not Found", "Recommendation not found"), <<get>>))
           ELSE /\ upd' = [pc |-> "got", event |-> event, userId |-> userId,
                           timestamp |-> timestamp,
                           requestBody |-> JsonParse(BodyText(event)),
                           calls |-> <<get>>]
                /\ resp' = resp
     /\ UNCHANGED <<now, msgs, store, batch, idx, results, wlast, wend, puts, del>>

\* the rest of the handler: the update expression and UpdateCommand
UpdateWrite(updateOk) ==
  /\ UNCHANGED timed
  /\ /\ upd.pc = "got"
     /\ LET answer(r) == resp' = [op |-> "updateRecommendation", event |-> upd.event, r |-> r]
            update == Call("Update", <<upd.userId, upd.timestamp, upd.requestBody>>, updateOk)
            found == ItemAt(store, upd.userId, upd.timestamp)
            old == IF found = {} THEN KeyItem(upd.userId, upd.timestamp)
                   ELSE CHOOSE r \in found : TRUE
        IN IF upd.requestBody = Null
           THEN answer(InternalError("Failed to update recommendation", upd.calls)) /\ store' = store
           ELSE IF NoValidFields(upd.requestBody)
           THEN answer(BadRequest("No valid fields to update", upd.calls)) /\ store' = store
           ELSE IF ~updateOk
           THEN /\ answer(InternalError("Failed to update recommendation", Append(upd.calls, update)))
                /\ store' = store
           ELSE /\ store' = (store \ found) \cup {Updated(old, upd.requestBody, now)}
                /\ answer(Response(200,
                                   [message |-> "Recommendation updated successfully",
                                    recommendation |-> Updated(old, upd.requestBody, now)],
                                   Append(upd.calls, update)))
     /\ upd' = Idle
     /\ UNCHANGED <<now, msgs, batch, idx, results, wlast, wend, puts, del>>

SliceInclusive(items, i, n) == SubSeq(items, i + 1, Min(i + n + 1, Len(items)))
\* queryResult.Items.slice(i, i + batchSize), i counted from 0
Slice(items, i, n) == SubSeq(items, i + 1, Min(i + n, Len(items)))

KeysOf(items) == [i \in DOMAIN items |-> KeyOf(items[i])]

\* the handler up to the answer of QueryCommand
DeleteStart(event, queryOk) ==
  /\ UNCHANGED timed
  /\ /\ del.pc = "idle"
     /\ LET userId == UserIdOf(event)
            query == Call("Query", userId, queryOk)
            Items == KeysOf(Sorted(ItemsOf(store, userId), FALSE))
            answer(r) == /\ resp' = [op |-> "deleteRecommendations", event |-> event, r |-> r]
                         /\ del' = del
        IN IF NoIdentity(userId) THEN answer(Unauthorized)
           ELSE IF ~queryOk
           THEN answer(InternalError("Failed to delete recommendations", <<query>>))
           ELSE IF Items = <<>>
           THEN answer(Response(200, [message |-> "No recommendations to delete",
                                      deletedCount |-> 0], <<query>>))
           ELSE /\ del' = [pc |-> "loop", event |-> event, Items |-> Items, i |-> 0,
                           deletedCount |-> 0, calls |-> <<query>>]
                /\ resp' = resp
     /\ UNCHANGED <<now, msgs, store, batch, idx, results, wlast, wend, puts, upd>>

\* one iteration of the batch loop, and the return after the last one
DeleteBatch(writeOk) ==
  /\ UNCHANGED timed
  /\ /\ del.pc = "loop"
     /\ LET keys == Slice(del.Items, del.i, deleteBatchSize)
            write == Call("BatchWrite", keys, writeOk)
            calls == Append(del.calls, write)
            deletedCount == del.deletedCount + Len(keys)
            answer(r) == resp' = [op |-> "deleteRecommendations", event |-> del.event, r |-> r]
        IN IF ~writeOk
           THEN /\ answer(InternalError("Failed to delete recommendations", calls))
                /\ store' = store
                /\ del' = Idle
           ELSE /\ store' = {r \in store : \A k \in DOMAIN keys : KeyOf(r) # keys[k]}
                /\ IF del.i + deleteBatchSize < Len(del.Items)
                   THEN /\ del' = [del EXCEPT !.i = @ + deleteBatchSize,
                                              !.deletedCount = deletedCount,
                                              !.calls = calls]
                        /\ resp' = resp
                   ELSE /\ del' = Idle
                        /\ answer(Response(200,
                                           [message |-> "Recommendations deleted successfully",
                                            deletedCount |-> deletedCount],
                                           calls))
     /\ UNCHANGED <<now, msgs, batch, idx, results, wlast, wend, puts, upd>>

----------------------------------------------------------------------------
\* Inputs

Users == {"U1", "U2"}

\* the caller identity of the authorizer context: absent, empty or a user
Subs == {Undefined, Str("")} \cup {Str(u) : u \in Users}

CoreLengths == {0, 1, MaxFeedbackLength - 1, MaxFeedbackLength, MaxFeedbackLength + 1}

\* feedback texts: blanks only (core 0) or a text with blanks around it
Texts ==
  {LongStr("slow", lead, 0, 0) : lead \in 0..MaxPad}
  \cup {LongStr("slow", lead, core, trail) :
          lead \in 0..MaxPad, core \in CoreLengths \ {0}, trail \in 0..MaxPad}

Feedbacks == {Undefined, Null, Num(5)} \cup Texts

TagInputs == {Undefined, Null, Arr(<<>>), Arr(<<Str("a")>>), Str("a")}

PostBodies ==
  {Undefined, InvalidJson, JsonStringify(Null)}
  \cup {JsonStringify([feedback |-> f, tags |-> g, feedbackType |-> c]) :
          f \in Feedbacks, g \in TagInputs, c \in {Undefined, Str("bug")}}

PostEvents == [sub : Subs, body : PostBodies]

\* the requests of the pipeline runs: a plain feedback of each user
PlainEvents ==
  {[sub |-> Str(u),
    body |-> JsonStringify([feedback |-> Str("slow"), tags |-> Undefined,
                            feedbackType |-> Undefined])] : u \in Users}

\* messages of other senders: not JSON, an envelope around no JSON or around null,
\* and messages without userId, without feedback or without timestamp
ForeignMessage(userId, feedback, timestamp) ==
  [userId |-> userId, feedback |-> feedback, timestamp |-> timestamp,
   tags |-> Undefined, feedbackType |-> Undefined]

BadInnerBody == SnsEnvelope(InvalidJson)
NoUserBody == SnsEnvelope(JsonStringify(ForeignMessage(Undefined, Str("slow"), Num(1))))
NoFeedbackBody == SnsEnvelope(JsonStringify(ForeignMessage(Str("U1"), Undefined, Num(1))))
NoTimestampBody == SnsEnvelope(JsonStringify(ForeignMessage(Str("U1"), Str("slow"), Undefined)))

ForeignBodies ==
  {InvalidJson, BadInnerBody, SnsEnvelope(JsonStringify(Null)),
   NoUserBody, NoFeedbackBody, NoTimestampBody}

\* items of a model response
GoodRec ==
  [title |-> Str("Improve response time"), description |-> Str("Add caching"),
   priority |-> Str("high"), category |-> Str("performance")]

MessyRec ==
  [title |-> LongStr("long title", 0, MaxTitleLength + 1, 0),
   description |-> LongStr("long description", 0, MaxDescriptionLength + 1, 0),
   priority |-> Str("urgent"), category |-> Undefined]

RecInputs == {GoodRec, MessyRec, Null}

RECURSIVE SeqsUpTo(_, _)
SeqsUpTo(S, n) ==
  IF n = 0 THEN {<<>>}
  ELSE SeqsUpTo(S, n - 1) \cup {Append(q, x) : q \in {p \in SeqsUpTo(S, n - 1) : Len(p) = n - 1}, x \in S}

BedrockResponses ==
  {BedrockError,
   BedrockText(FALSE, InvalidJson),
   BedrockText(FALSE, JsonStringify([t |-> "object"])),
   BedrockText(FALSE, JsonStringify(Null)),
   BedrockText(TRUE, JsonStringify(Arr(<<GoodRec>>)))}
  \cup {BedrockText(FALSE, JsonStringify(Arr(q))) : q \in SeqsUpTo(RecInputs, MaxItems)}

\* the responses of the pipeline runs: the call fails or returns one item
PlainResponses == {BedrockError, BedrockText(FALSE, JsonStringify(Arr(<<GoodRec>>)))}

\* strictly increasing sequences of message ids
Increasing(b) == \A i, j \in DOMAIN b : i < j => b[i] < b[j]
Batches(n) == {b \in SeqsUpTo(1..n, n) : Increasing(b)}

\* the bodies in the queue of a single-invocation run: a submission of each user
\* as Intake publishes it, and the messages of other senders
PlainBody(u, t) ==
  SnsEnvelope(JsonStringify(FeedbackMessage(Str(u),
     [feedback |-> Str("slow"), tags |-> Undefined, feedbackType |-> Undefined], t)))

BatchBodies == {PlainBody(u, 1) : u \in Users} \cup ForeignBodies

\* the pipeline runs have one message that cannot be parsed and one without timestamp
PipelineForeignBodies == {BadInnerBody, NoTimestampBody}

----------------------------------------------------------------------------
\* The pipeline: submissions, the queue, the worker

Init ==
  /\ visibleAt = <<>>
  /\ workers = <<>>
  /\ now = 1
  /\ msgs = <<>>
  /\ store = {}
  /\ batch = <<>>
  /\ idx = 1
  /\ results = [successful |-> <<>>, failed |-> <<>>]
  /\ wlast = NoEntry
  /\ wend = "none"
  /\ puts = <<>>
  /\ upd = Idle
  /\ del = Idle
  /\ resp = [op |-> "none"]

Next ==
  \/ Tick
  \/ \E event \in PlainEvents : PostFeedback(event, TRUE)
  \/ \E body \in PipelineForeignBodies : PublishForeign(body)
  \/ \E b \in Batches(MaxMsgs) : Receive(b)
  \/ \E response \in PlainResponses, putOk \in BOOLEAN : ProcessRecord(response, putOk)
  \/ WorkerReturn
  \/ \E id \in 1..MaxMsgs : Redrive(id)

Spec == Init /\ [][Next]_vars

\* the queue delivers every message that stays deliverable, an invocation runs to
\* its end, and the redrive policy is applied
Fairness ==
  /\ \A id \in 1..MaxMsgs : SF_vars(\E b \in Batches(MaxMsgs) : InBatch(b, id) /\ Receive(b))
  /\ WF_vars(\E response \in PlainResponses, putOk \in BOOLEAN : ProcessRecord(response, putOk))
  /\ WF_vars(WorkerReturn)
  /\ \A id \in 1..MaxMsgs : WF_vars(Redrive(id))

FairSpec == Spec /\ Fairness

----------------------------------------------------------------------------
\* One invocation of the worker, on a batch taken from a queue that holds any
\* messages, with any response of the model and any outcome of the store for
\* each of them

InitBatch ==
  /\ visibleAt = <<>>
  /\ workers = <<>>
  /\ now = 1
  /\ msgs \in {[i \in DOMAIN q |-> QueueMessage(q[i])] : q \in SeqsUpTo(BatchBodies, MaxBatch) \ {<<>>}}
  /\ store = {}
  /\ batch = <<>>
  /\ idx = 1
  /\ results = [successful |-> <<>>, failed |-> <<>>]
  /\ wlast = NoEntry
  /\ wend = "none"
  /\ puts = [i \in DOMAIN msgs |-> 0]
  /\ upd = Idle
  /\ del = Idle
  /\ resp = [op |-> "none"]

FirstReceive(b) == wend = "none" /\ Receive(b)

NextBatch ==
  \/ Tick
  \/ \E b \in Batches(MaxBatch) : FirstReceive(b)
  \/ \E response \in BedrockResponses, putOk \in BOOLEAN : ProcessRecord(response, putOk)
  \/ WorkerReturn

SpecBatch == InitBatch /\ [][NextBatch]_vars

----------------------------------------------------------------------------
\* One request to a handler of the API, on a table that holds any of the items
\* the worker writes

\* a submission with tags, as Intake publishes it
TaggedBody(u, t, tags) ==
  SnsEnvelope(JsonStringify(FeedbackMessage(Str(u),
     [feedback |-> Str("slow"), tags |-> tags, feedbackType |-> Undefined], t)))

StoreItems ==
  {Item(MessageOf(TaggedBody("U1", 1, Arr(<<Str("b"), Str("c")>>))),
        generateRecommendations(BedrockText(FALSE, JsonStringify(Arr(<<GoodRec>>))), 1), 1),
   Item(MessageOf(PlainBody("U1", 2)), generateRecommendations(BedrockError, 2), 2),
   Item(MessageOf(TaggedBody("U2", 1, Arr(<<Str("a")>>))),
        generateRecommendations(BedrockText(FALSE, JsonStringify(Arr(<<MessyRec>>))), 1), 1)}

GetEvents == [sub : Subs]

NumericStr(n) ==
  [t |-> "string", word |-> "digits", lead |-> 0, core |-> 1, trail |-> 0, int |-> n]

IsoDateStr(n) ==
  [t |-> "string", word |-> "iso date", lead |-> 0, core |-> 24, trail |-> 0, epoch |-> n]

CommaStr(parts) ==
  [t |-> "string", word |-> "list", lead |-> 0, core |-> 2 * Len(parts) - 1, trail |-> 0,
   parts |-> parts]

SearchQueries ==
  {Null}
  \cup [search : {Undefined, Str("SLOW"), LongStr("", 1, 0, 0)},
        tags : {Undefined, CommaStr(<<Str("a"), LongStr("b", 1, 1, 0)>>)},
        completed : {Undefined, Str("true"), Str("false")},
        feedbackType : {Undefined, Str("general")},
        fromDate : {Undefined, Str("soon"), IsoDateStr(2)},
        toDate : {Undefined, IsoDateStr(1)}]

SearchEvents == [sub : Subs, queryStringParameters : SearchQueries]

UpdateBodies ==
  {Undefined, InvalidJson, JsonStringify(Null)}
  \cup {JsonStringify(b) :
          b \in [completed : {Undefined, Bool(TRUE), Str("yes")},
                 tags : {Undefined, Arr(<<Str("a")>>), Str("a")},
                 recommendations : {Undefined, Arr(<<>>)},
                 feedbackType : {Undefined, Str("bug")},
                 originalFeedback : {Undefined, Str("fast")}]}

UpdateEvents ==
  [sub : Subs,
   timestamp : {Undefined, Str("abc"), NumericStr(0), NumericStr(1), NumericStr(2)},
   body : UpdateBodies]

DeleteEvents == [sub : Subs]

InitRequest ==
  /\ visibleAt = <<>>
  /\ workers = <<>>
  /\ now \in 1..MaxClock
  /\ msgs = <<>>
  /\ store \in SUBSET StoreItems
  /\ batch = <<>>
  /\ idx = 1
  /\ results = [successful |-> <<>>, failed |-> <<>>]
  /\ wlast = NoEntry
  /\ wend = "none"
  /\ puts = <<>>
  /\ upd = Idle
  /\ del = Idle
  /\ resp = [op |-> "none"]

\* no request was handled yet
FirstRequest == resp.op = "none" /\ upd.pc = "idle" /\ del.pc = "idle"

NextRequest ==
  \/ FirstRequest /\ \E event \in PostEvents, snsOk \in BOOLEAN : PostFeedback(event, snsOk)
  \/ FirstRequest /\ \E event \in GetEvents, queryOk \in BOOLEAN :
                       GetRecommendations(event, queryOk)
  \/ FirstRequest /\ \E event \in SearchEvents, queryOk \in BOOLEAN :
                       SearchRecommendations(event, queryOk)
  \/ FirstRequest /\ \E event \in UpdateEvents, getOk \in BOOLEAN : UpdateStart(event, getOk)
  \/ \E updateOk \in BOOLEAN : UpdateWrite(updateOk)
  \/ FirstRequest /\ \E event \in DeleteEvents, queryOk \in BOOLEAN :
                       DeleteStart(event, queryOk)
  \/ \E writeOk \in BOOLEAN : DeleteBatch(writeOk)

SpecRequest == InitRequest /\ [][NextRequest]_vars

----------------------------------------------------------------------------
\* End to end, with every service available: a user submits, the worker gets a
\* valid array from the model and persists, and the user marks the Record completed

ValidArrays ==
  {BedrockText(FALSE, JsonStringify(Arr(q))) : q \in SeqsUpTo({GoodRec, MessyRec}, MaxArray)}

CompleteEvents ==
  [sub : {Str(u) : u \in Users},
   timestamp : {NumericStr(t) : t \in 1..MaxClock},
   body : {JsonStringify([completed |-> Bool(TRUE)])}]

NextEndToEnd ==
  \/ Tick
  \/ msgs = <<>> /\ \E event \in PlainEvents : PostFeedback(event, TRUE)
  \/ \E b \in Batches(1) : Receive(b)
  \/ \E response \in ValidArrays : ProcessRecord(response, TRUE)
  \/ WorkerReturn
  \/ \E event \in CompleteEvents : UpdateStart(event, TRUE)
  \/ UpdateWrite(TRUE)

SpecEndToEnd == Init /\ [][NextEndToEnd]_vars

----------------------------------------------------------------------------
\* The timed queue: the event source polls FeedbackQueue, gathers a batch for at
\* most the batching window and invokes the worker, concurrently with other
\* invocations. A received message is hidden until its visibility timeout ends,
\* whatever became of the invocation that got it; an invocation runs for at most
\* the function timeout, counted from its start.

IdleWorker == [pc |-> "idle", ids |-> {}, received |-> 0, started |-> 0]

rest == <<store, batch, idx, results, wlast, wend, puts, upd, del, resp>>

\* the message is in the queue and not hidden
Receivable(id) == msgs[id].loc = "queue" /\ now >= visibleAt[id]

\* the poller receives the messages ids for invocation slot w
TimedPoll(w, ids) ==
  /\ workers[w].pc = "idle"
  /\ ids # {}
  /\ Cardinality(ids) <= batchSize
  /\ \A id \in ids : Receivable(id) /\ msgs[id].rc < maxReceiveCount
  /\ msgs' = [id \in DOMAIN msgs |->
                IF id \in ids THEN [msgs[id] EXCEPT !.rc = @ + 1] ELSE msgs[id]]
  /\ visibleAt' = [id \in DOMAIN msgs |->
                     IF id \in ids THEN now + visibilityTimeoutSeconds ELSE visibleAt[id]]
  /\ workers' = [workers EXCEPT ![w] = [pc |-> "polled", ids |-> ids,
                                         received |-> now, started |-> 0]]
  /\ UNCHANGED <<now, rest>>

\* the poller invokes the worker with the batch it gathered
TimedInvoke(w) ==
  /\ workers[w].pc = "polled"
  /\ workers' = [workers EXCEPT ![w].pc = "running", ![w].started = now]
  /\ UNCHANGED <<now, msgs, visibleAt, rest>>

\* the handler returns and the poller deletes the batch from the queue
TimedReturn(w) ==
  /\ workers[w].pc = "running"
  /\ msgs' = [id \in DOMAIN msgs |->
                IF id \in workers[w].ids /\ msgs[id].loc = "queue"
                THEN [msgs[id] EXCEPT !.loc = "deleted"]
                ELSE msgs[id]]
  /\ workers' = [workers EXCEPT ![w] = IdleWorker]
  /\ UNCHANGED <<now, visibleAt, rest>>

\* the handler raises or is stopped at the function timeout: the batch stays in the
\* queue, hidden until its visibility timeout ends
TimedFail(w) ==
  /\ workers[w].pc = "running"
  /\ workers' = [workers EXCEPT ![w] = IdleWorker]
  /\ UNCHANGED <<now, msgs, visibleAt, rest>>

\* the redrive policy on a message that was received maxReceiveCount times
TimedRedrive(id) ==
  /\ Receivable(id)
  /\ msgs[id].rc >= maxReceiveCount
  /\ msgs' = [msgs EXCEPT ![id].loc = "dlq"]
  /\ UNCHANGED <<now, visibleAt, workers, rest>>

\* time passes: no batch waits longer than the batching window and no invocation
\* runs longer than the function timeout
Elapse ==
  /\ now + TickSeconds <= MaxSeconds
  /\ \A w \in DOMAIN workers :
       /\ workers[w].pc = "polled"
          => now + TickSeconds <= workers[w].received + maxBatchingWindowSeconds
       /\ workers[w].pc = "running"
          => now + TickSeconds <= workers[w].started + workerTimeoutSeconds
  /\ now' = now + TickSeconds
  /\ UNCHANGED <<msgs, visibleAt, workers, rest>>

InitTimed ==
  /\ now = 0
  \* the second message was already received, and given back, all but one time
  /\ msgs = <<QueueMessage(PlainBody("U1", 1)),
              [QueueMessage(PlainBody("U2", 1)) EXCEPT !.rc = maxReceiveCount - 1]>>
  /\ visibleAt = <<0, 0>>
  /\ workers = [w \in 1..MaxWorkers |-> IdleWorker]
  /\ store = {}
  /\ batch = <<>>
  /\ idx = 1
  /\ results = [successful |-> <<>>, failed |-> <<>>]
  /\ wlast = NoEntry
  /\ wend = "none"
  /\ puts = <<0, 0>>
  /\ upd = Idle
  /\ del = Idle
  /\ resp = [op |-> "none"]

NextTimed ==
  \/ Elapse
  \/ \E w \in DOMAIN workers, ids \in SUBSET DOMAIN msgs : TimedPoll(w, ids)
  \/ \E w \in DOMAIN workers : TimedInvoke(w)
  \/ \E w \in DOMAIN workers : TimedReturn(w)
  \/ \E w \in DOMAIN workers : TimedFail(w)
  \/ \E id \in DOMAIN msgs : TimedRedrive(id)

SpecTimed == InitTimed /\ [][NextTimed]_vars

----------------------------------------------------------------------------
\* One read request, list or search, while the table service is available

NextQuery ==
  \/ FirstRequest /\ \E event \in GetEvents : GetRecommendations(event, TRUE)
  \/ FirstRequest /\ \E event \in SearchEvents : SearchRecommendations(event, TRUE)

SpecQuery == InitRequest /\ [][NextQuery]_vars

----------------------------------------------------------------------------
\* The worker and the requests that write to the table, interleaved: a submission
\* of each user is in the queue, and the first user updates and deletes while the
\* worker runs

ConcurrentUpdateEvents ==
  [sub : {Str("U1")},
   timestamp : {NumericStr(1)},
   body : {JsonStringify([completed |-> Bool(TRUE), tags |-> Arr(<<Str("a")>>),
                          recommendations |-> Undefined, feedbackType |-> Undefined])}]

ConcurrentDeleteEvents == [sub : {Str("U1")}]

InitConcurrent ==
  /\ visibleAt = <<>>
  /\ workers = <<>>
  /\ now = 1
  /\ msgs = <<QueueMessage(PlainBody("U1", 1)), QueueMessage(PlainBody("U2", 1))>>
  /\ store = {}
  /\ batch = <<>>
  /\ idx = 1
  /\ results = [successful |-> <<>>, failed |-> <<>>]
  /\ wlast = NoEntry
  /\ wend = "none"
  /\ puts = <<0, 0>>
  /\ upd = Idle
  /\ del = Idle
  /\ resp = [op |-> "none"]

NextConcurrent ==
  \/ Tick
  \/ \E b \in Batches(Len(msgs)) : Receive(b)
  \/ \E response \in PlainResponses, putOk \in BOOLEAN : ProcessRecord(response, putOk)
  \/ WorkerReturn
  \/ \E id \in DOMAIN msgs : Redrive(id)
  \/ \E event \in ConcurrentUpdateEvents : UpdateStart(event, TRUE)
  \/ \E updateOk \in BOOLEAN : UpdateWrite(updateOk)
  \/ \E event \in ConcurrentDeleteEvents : DeleteStart(event, TRUE)
  \/ \E writeOk \in BOOLEAN : DeleteBatch(writeOk)

SpecConcurrent == InitConcurrent /\ [][NextConcurrent]_vars

----------------------------------------------------------------------------
\* Bulk deletes of one owner, concurrent with each other and with the worker

\* a whole run of another deleteRecommendations invocation, its Query and its one
\* BatchWrite succeeding, between two steps of the invocation that del follows
DeleteWhole(event) ==
  LET userId == UserIdOf(event)
      Items == KeysOf(Sorted(ItemsOf(store, userId), FALSE))
      query == Call("Query", userId, TRUE)
      write == Call("BatchWrite", Items, TRUE)
  IN /\ ~NoIdentity(userId)
     /\ Len(Items) >= 1
     /\ Len(Items) <= deleteBatchSize
     /\ store' = {r \in store : \A k \in DOMAIN Items : KeyOf(r) # Items[k]}
     /\ resp' = [op |-> "deleteRecommendations", event |-> event,
                 r |-> Response(200, [message |-> "Recommendations deleted successfully",
                                      deletedCount |-> Len(Items)], <<query, write>>)]
     /\ UNCHANGED <<now, msgs, batch, idx, results, wlast, wend, puts, upd, del, timed>>

NextDeletes ==
  \/ Tick
  \/ \E b \in Batches(Len(msgs)) : Receive(b)
  \/ \E response \in PlainResponses : ProcessRecord(response, TRUE)
  \/ WorkerReturn
  \/ \E event \in ConcurrentDeleteEvents : DeleteStart(event, TRUE)
  \/ DeleteBatch(TRUE)
  \/ \E event \in ConcurrentDeleteEvents : DeleteWhole(event)

SpecDeletes == InitConcurrent /\ [][NextDeletes]_vars

----------------------------------------------------------------------------
\* One bulk delete, on a table that holds any number of Records of the first user
\* and one Record of the second

RecordAt(u, t) == Item(MessageOf(PlainBody(u, t)), FallbackRecommendations(t), t)

InitDelete ==
  /\ visibleAt = <<>>
  /\ workers = <<>>
  /\ now = 1
  /\ msgs = <<>>
  /\ store \in {{RecordAt("U1", t) : t \in 1..n} \cup {RecordAt("U2", 1)} : n \in 0..MaxRecords}
  /\ batch = <<>>
  /\ idx = 1
  /\ results = [successful |-> <<>>, failed |-> <<>>]
  /\ wlast = NoEntry
  /\ wend = "none"
  /\ puts = <<>>
  /\ upd = Idle
  /\ del = Idle
  /\ resp = [op |-> "none"]

NextDelete ==
  \/ FirstRequest /\ \E event \in DeleteEvents, queryOk \in BOOLEAN :
                       DeleteStart(event, queryOk)
  \/ \E writeOk \in BOOLEAN : DeleteBatch(writeOk)

SpecDelete == InitDelete /\ [][NextDelete]_vars

----------------------------------------------------------------------------
\* Properties of Submission Intake and of the identity check (SpecRequest)

AbsentIdentity(sub) == sub = Undefined \/ sub = Str("")

\* the request just answered by postFeedback has a body with a feedback text
AnsweredText ==
  /\ resp.op = "postFeedback"
  /\ JsonParses(BodyText(resp.event))
  /\ JsonParse(BodyText(resp.event)) # Null
  /\ IsString(Field(JsonParse(BodyText(resp.event)), "feedback"))

AnsweredFeedback == Field(JsonParse(BodyText(resp.event)), "feedback")
AnsweredTags == Field(JsonParse(BodyText(resp.event)), "tags")

\* the text without the blanks around it
Trimmed(f) == [t |-> "string", word |-> f.word, lead |-> 0, core |-> f.core, trail |-> 0]

\* 202, one Publish call, and one message in the queue that carries the trimmed text
AcceptedOnce ==
  /\ resp.r.statusCode = 202
  /\ Len(resp.r.calls) = 1
  /\ resp.r.calls[1].api = "Publish"
  /\ JsonParse(resp.r.calls[1].arg).feedback = Trimmed(AnsweredFeedback)
  /\ JsonParse(resp.r.calls[1].arg).userId = resp.event.sub
  /\ Len(msgs) = 1
  /\ JsonParse(JsonParse(msgs[1].body).Message).feedback = Trimmed(AnsweredFeedback)

NothingPublished == resp.r.calls = <<>> /\ msgs = <<>>

\* C1 as stated: every request with a caller identity and a feedback text of length
\* 1 to 10000 is answered 202 and publishes exactly one message, with the trimmed text
C1_AsStated ==
  (/\ AnsweredText
   /\ ~AbsentIdentity(resp.event.sub)
   /\ Length(AnsweredFeedback) >= 1
   /\ Length(AnsweredFeedback) <= 10000)
  => AcceptedOnce

\* C1 amended: a request with a caller identity, a feedback text that is not empty
\* after trimming and has at most 10000 characters before trimming, and tags absent
\* or an array, whose publish call succeeds, is answered 202 and publishes exactly
\* one message, which carries the trimmed text
C1_Accepted ==
  (/\ AnsweredText
   /\ ~AbsentIdentity(resp.event.sub)
   /\ AnsweredFeedback.core >= 1
   /\ Length(AnsweredFeedback) <= 10000
   /\ (AnsweredTags = Undefined \/ IsArray(AnsweredTags))
   /\ \A i \in DOMAIN resp.r.calls : resp.r.calls[i].ok)
  => AcceptedOnce

C1_Witness ==
  /\ AnsweredText
  /\ resp.r.statusCode = 202
  /\ AnsweredFeedback.lead = 1
  /\ Length(AnsweredFeedback) = 10000
  /\ Len(msgs) = 1

\* C2: a request whose feedback text is empty after trimming or longer than 10000
\* characters publishes nothing and is answered 400 (401 when it has no caller
\* identity, which is checked first)
C2_Rejected ==
  (/\ AnsweredText
   /\ (AnsweredFeedback.core = 0 \/ Length(AnsweredFeedback) > 10000))
  => /\ NothingPublished
     /\ resp.r.statusCode = IF AbsentIdentity(resp.event.sub) THEN 401 ELSE 400

C2_Witness ==
  /\ AnsweredText
  /\ resp.r.statusCode = 400
  /\ AnsweredFeedback.core = 0
  /\ AnsweredFeedback.lead = 1

\* C3: a request without caller identity, to any of the five handlers, is answered
\* 401 and the handler makes no client call: nothing is published, read or written
C3_Unauthorized ==
  [][(resp' # resp /\ AbsentIdentity(resp'.event.sub))
       => /\ resp'.r.statusCode = 401
          /\ resp'.r.calls = <<>>
          /\ msgs' = msgs
          /\ store' = store
          /\ upd' = upd
          /\ del' = del]_vars

C3_Witness ==
  /\ resp.op = "deleteRecommendations"
  /\ AbsentIdentity(resp.event.sub)
  /\ resp.r.statusCode = 401
  /\ store # {}

----------------------------------------------------------------------------
\* Properties of one worker invocation (SpecBatch)

InResults(list, id) == \E i \in DOMAIN list : list[i].messageId = id

AllBackInQueue == \A j \in DOMAIN batch : msgs[batch[j]].loc = "queue"

\* the single fallback item
FallbackOnly(recommendations) ==
  /\ IsArray(recommendations)
  /\ Len(recommendations.v) = 1
  /\ recommendations.v[1].title = Str("Review and analyze feedback")
  /\ recommendations.v[1].priority = Str("medium")
  /\ recommendations.v[1].category = Str("general")

\* C4 as stated: a model response that is not an array makes the handler raise
C4_AsStated == wlast.class = "nonArray" => (wend = "raised" /\ AllBackInQueue)

\* C4 amended: a model response that is not an array is not fatal: the message gets
\* the fallback item and is persisted, the loop goes on with the next message, and
\* the handler raises on that message only when the store write fails
C4_Absorbed ==
  wlast.class = "nonArray"
  => /\ wlast.outcome \in {"saved", "putThrew"}
     /\ FallbackOnly(wlast.item.recommendations)
     /\ (wend = "raised") <=> (wlast.outcome = "putThrew")
     /\ wlast.outcome = "saved"
          => /\ wlast.item \in store
             /\ InResults(results.successful, wlast.id)
             /\ batch[idx - 1] = wlast.id

C4_Witness ==
  /\ wlast.class = "nonArray"
  /\ Len(batch) = 3
  /\ wlast.id = batch[3]
  /\ Len(results.successful) = 3
  /\ wend = "returned"
  /\ \A j \in DOMAIN batch : msgs[batch[j]].loc = "deleted"

\* messages that do not parse, and messages without owner or without feedback
NotWellFormed(body) == body \in {InvalidJson, BadInnerBody}
OwnerOrFeedbackAbsent(body) == body \in {NoUserBody, NoFeedbackBody}

C7_PutFailureAborts ==
  wlast.outcome = "putThrew"
  => /\ wend = "raised"
     /\ batch[idx] = wlast.id
     /\ Len(results.successful) + Len(results.failed) = idx
     /\ InResults(results.failed, wlast.id)
     /\ \A j \in DOMAIN batch :
          /\ j > idx => /\ puts[batch[j]] = 0
                        /\ ~InResults(results.successful, batch[j])
                        /\ ~InResults(results.failed, batch[j])
          /\ msgs[batch[j]].loc = "queue"
          /\ msgs[batch[j]].rc < 3

C7_Witness ==
  /\ wlast.outcome = "putThrew"
  /\ Len(batch) = 3
  /\ idx = 2
  /\ puts[batch[1]] = 1
  /\ msgs[batch[1]].loc = "queue"
  /\ puts[batch[3]] = 0

\* C8: when the inference call fails (the call rejects, the text does not parse, the
\* value is no array or has a null item) the message is not failed: the item put has
\* exactly the fallback item, and unless the store write fails it is in the table
\* and the message is counted successful
C8_Fallback ==
  wlast.class \in {"error", "unparsable", "nonArray", "badItem"}
  => /\ wlast.outcome \in {"saved", "putThrew"}
     /\ FallbackOnly(wlast.item.recommendations)
     /\ wlast.outcome = "saved"
          => /\ wlast.item \in store
             /\ InResults(results.successful, wlast.id)
             /\ ~InResults(results.failed, wlast.id)
             /\ wend # "raised"

C8_Witness ==
  /\ wlast.class = "error"
  /\ wlast.outcome = "saved"
  /\ Len(batch) = 3
  /\ wlast.id = batch[2]
  /\ \E r \in store : FallbackOnly(r.recommendations)

\* C9 as stated: every Record the worker writes has completed = false and at least
\* one recommendation item, whatever the model returned
C9_AsStated ==
  wlast.outcome = "saved"
  => /\ wlast.item.completed = Bool(FALSE)
     /\ Len(wlast.item.recommendations.v) >= 1

----------------------------------------------------------------------------
\* Properties of redelivery (Spec)

Parsed(id) == ~ParseThrows(msgs[id].body)
OwnerOf(id) == MessageOf(msgs[id].body).userId
TimestampOf(id) == MessageOf(msgs[id].body).timestamp

MessagesOf(userId) == {id \in DOMAIN msgs : Parsed(id) /\ OwnerOf(id) = userId}

\* C6 as stated: once a message persisted in an aborted attempt was persisted again
\* on redelivery, the table holds more Records of its owner than the owner has messages
C6_AsStated ==
  \A id \in DOMAIN msgs :
    (Parsed(id) /\ puts[id] >= 2)
    => Cardinality(ItemsOf(store, OwnerOf(id))) > Cardinality(MessagesOf(OwnerOf(id)))

\* C6 amended: a message persisted in an aborted attempt is persisted again on
\* redelivery, at the same key (owner, timestamp of the message), where it replaces
\* the Record written before: for an owner whose messages all carry a timestamp the
\* table never holds more Records than the owner's messages have distinct timestamps
C6_Overwrites ==
  \A u \in Users :
    (\A id \in MessagesOf(Str(u)) : TimestampOf(id) # Undefined)
    => /\ Cardinality(ItemsOf(store, Str(u)))
            <= Cardinality({TimestampOf(id) : id \in MessagesOf(Str(u))})
       /\ \A r \in ItemsOf(store, Str(u)) :
            \E id \in MessagesOf(Str(u)) : r.timestamp = TimestampOf(id) /\ puts[id] >= 1

C6_Witness ==
  \E id \in DOMAIN msgs :
    /\ Parsed(id)
    /\ TimestampOf(id) # Undefined
    /\ puts[id] >= 2
    /\ msgs[id].rc >= 2
    /\ Cardinality(ItemsOf(store, OwnerOf(id))) = 1
    /\ \A j \in MessagesOf(OwnerOf(id)) : TimestampOf(j) # Undefined

\* C10: a message is delivered to the worker at most 3 times; a message in the
\* dead-letter queue was delivered 3 times and is never delivered again
C10_AtMostThree ==
  [][\A id \in DOMAIN msgs :
       /\ msgs'[id].rc <= 3
       /\ msgs'[id].loc = "dlq" => msgs'[id].rc = 3
       /\ msgs[id].loc = "dlq" => msgs'[id] = msgs[id]
       /\ (msgs[id].rc = 3 /\ msgs[id].loc = "queue") => msgs'[id].loc \in {"queue", "dlq"}]_vars

C10_Witness ==
  \E id \in DOMAIN msgs : msgs[id].loc = "dlq" /\ msgs[id].rc = 3 /\ puts[id] = 3

----------------------------------------------------------------------------
\* A batch in which only inference calls fail (SpecBatch)

\* every message of the batch parses, down to the submission object
BatchParses ==
  \A j \in DOMAIN batch :
    msgs[batch[j]].body \notin {InvalidJson, BadInnerBody, SnsEnvelope(JsonStringify(Null))}

HasOwnerAndFeedback(body) == body \notin {NoUserBody, NoFeedbackBody}

\* C11: in an invocation whose messages all parse and in which no store write fails,
\* the handler does not raise whatever the inference calls do: every message with
\* owner and feedback reached by the loop is persisted once and counted successful,
\* a failed inference leaves the fallback content in the table, and when the handler
\* has returned the whole batch is deleted from the queue after a single delivery
C11_InferenceFailuresAcknowledged ==
  (wend # "none" /\ BatchParses /\ wlast.outcome # "putThrew")
  => /\ wend # "raised"
     /\ \A j \in DOMAIN batch :
          (j < idx /\ HasOwnerAndFeedback(msgs[batch[j]].body))
          => /\ puts[batch[j]] = 1
             /\ InResults(results.successful, batch[j])
             /\ \E r \in store :
                  /\ r.userId = MessageOf(msgs[batch[j]].body).userId
                  /\ r.originalFeedback = MessageOf(msgs[batch[j]].body).feedback
     /\ (wlast.class \in {"error", "unparsable", "nonArray", "badItem"})
          => (wlast.item \in store /\ FallbackOnly(wlast.item.recommendations))
     /\ wend = "returned"
          => /\ idx = Len(batch) + 1
             /\ \A j \in DOMAIN batch :
                  msgs[batch[j]].loc = "deleted" /\ msgs[batch[j]].rc = 1

C11_Witness ==
  /\ wend = "returned"
  /\ Len(batch) = 3
  /\ Len(results.successful) = 3
  /\ msgs[batch[2]].body = PlainBody("U2", 1)
  /\ \A r \in store : FallbackOnly(r.recommendations) <=> r.userId = Str("U2")
  /\ Cardinality(store) = 3
  /\ \A j \in DOMAIN batch : msgs[batch[j]].loc = "deleted"

----------------------------------------------------------------------------
\* Properties of the table under interleaved writers (SpecConcurrent)

HasKey(table, key) == \E r \in table : KeyOf(r) = key

\* C12 as stated: the write of Update creates no Record: every key of the table
\* after the write held a Record immediately before it
C12_AsStated ==
  [][(upd.pc = "got" /\ upd'.pc = "idle")
       => \A r \in store' : HasKey(store, KeyOf(r))]_vars

\* C13 as stated: every Record of the table carries the original text, the
\* recommendations, generatedAt and the model identifier
C13_AsStated ==
  \A r \in store :
    {"originalFeedback", "recommendations", "generatedAt", "modelId"} \subseteq DOMAIN r

\* C14 as stated: a step of the worker changes none of completed, tags,
\* recommendations, feedbackType and updatedAt of a Record that exists
C14_AsStated ==
  [][(puts' # puts)
       => \A r \in store : \A q \in store' :
            KeyOf(q) = KeyOf(r)
            => /\ q.completed = r.completed
               /\ q.tags = r.tags
               /\ q.recommendations = r.recommendations
               /\ q.feedbackType = r.feedbackType
               /\ q.updatedAt = r.updatedAt]_vars

----------------------------------------------------------------------------
\* Properties of Update, of ownership and of the tags filter (SpecRequest)

Whitelist == {"completed", "tags", "recommendations", "feedbackType"}

\* the step is the part of Update after its GetCommand found the Record
UpdateWrites == upd.pc = "got" /\ upd'.pc = "idle"

AllCallsOk(r) == \A i \in DOMAIN r.calls : r.calls[i].ok

\* C15: an Update with caller identity, a numeric timestamp and a body that parses,
\* on a key at which the caller has no Record, is answered 404 once the read of the
\* key succeeded, whatever the body holds; it never proceeds to the write and the
\* table is unchanged
C15_NotFound ==
  [][/\ (/\ resp' # resp
         /\ resp'.op = "updateRecommendation"
         /\ upd.pc = "idle"
         /\ ~AbsentIdentity(resp'.event.sub)
         /\ "int" \in DOMAIN resp'.event.timestamp
         /\ resp'.event.timestamp.int # 0
         /\ JsonParses(BodyText(resp'.event))
         /\ ~HasKey(store, <<resp'.event.sub, Num(resp'.event.timestamp.int)>>)
         /\ AllCallsOk(resp'.r))
        => /\ resp'.r.statusCode = 404
           /\ store' = store
           /\ upd'.pc = "idle"
     /\ (upd.pc = "idle" /\ upd'.pc = "got")
        => HasKey(store, <<upd'.event.sub, Num(upd'.event.timestamp.int)>>)]_vars

C15_Witness ==
  /\ resp.op = "updateRecommendation"
  /\ resp.r.statusCode = 404
  /\ resp.event.sub = Str("U2")
  /\ resp.event.timestamp = NumericStr(2)
  /\ JsonParses(BodyText(resp.event))
  /\ JsonParse(BodyText(resp.event)) # Null
  /\ Field(JsonParse(BodyText(resp.event)), "completed") = Bool(TRUE)
  /\ HasKey(store, <<Str("U1"), Num(2)>>)
  /\ upd.pc = "idle"

Supplied(requestBody) == {f \in Whitelist : Field(requestBody, f) # Undefined}
Applied(requestBody) ==
  {f \in Supplied(requestBody) : f = "tags" => IsArray(requestBody.tags)}

\* the write sets exactly the given fields and updatedAt of the Record at the key,
\* keeps every other field and every other Record, and the answer is the new Record
FrameHolds(fields) ==
  /\ HasKey(store, <<upd.userId, upd.timestamp>>)
  /\ HasKey(store', <<upd.userId, upd.timestamp>>)
  /\ LET old == CHOOSE r \in store : KeyOf(r) = <<upd.userId, upd.timestamp>>
         new == CHOOSE r \in store' : KeyOf(r) = <<upd.userId, upd.timestamp>>
     IN /\ store' = (store \ {old}) \cup {new}
        /\ DOMAIN new = DOMAIN old \cup fields \cup {"updatedAt"}
        /\ \A f \in fields : new[f] = upd.requestBody[f]
        /\ new.updatedAt = IsoString(now)
        /\ \A f \in DOMAIN old \ (fields \cup {"updatedAt"}) : new[f] = old[f]
        /\ resp'.r.body.recommendation = new

\* C17 as stated: a successful Update sets every whitelisted field the body supplies,
\* and updatedAt, and nothing else
C17_AsStated ==
  [][(UpdateWrites /\ resp'.r.statusCode = 200)
     => FrameHolds(Supplied(upd.requestBody))]_vars

\* C17 amended: a successful Update sets the whitelisted fields the body supplies,
\* tags only when it is an array (tags of another type is ignored), and updatedAt;
\* every other field, userId, timestamp, originalFeedback, generatedAt and modelId
\* among them, keeps its value, fields outside the whitelist are not written, and
\* the answer is the full Record after the change
C17_Frame ==
  [][(UpdateWrites /\ resp'.r.statusCode = 200)
     => FrameHolds(Applied(upd.requestBody))]_vars

C17_Witness ==
  /\ resp.op = "updateRecommendation"
  /\ resp.r.statusCode = 200
  /\ Field(JsonParse(BodyText(resp.event)), "completed") = Bool(TRUE)
  /\ Field(JsonParse(BodyText(resp.event)), "tags") = Str("a")
  /\ Field(JsonParse(BodyText(resp.event)), "originalFeedback") = Str("fast")
  /\ now = 2
  /\ \E r \in store :
       /\ KeyOf(r) = <<Str("U1"), Num(1)>>
       /\ resp.r.body.recommendation = r
       /\ r.completed = Bool(TRUE)
       /\ r.tags = Arr(<<Str("b"), Str("c")>>)
       /\ r.originalFeedback = Str("slow")
       /\ r.generatedAt = IsoString(1)
       /\ r.updatedAt = IsoString(2)

\* C18: a request of caller A gets only Records of A from list and search, gets a
\* Record of A from Update, and every Record a request of A adds to the table,
\* changes in it or removes from it has owner A
C18_Isolation ==
  [][/\ (/\ resp' # resp
         /\ resp'.op \in {"getRecommendations", "searchRecommendations"}
         /\ resp'.r.statusCode = 200)
        => \A i \in DOMAIN resp'.r.body.recommendations :
             resp'.r.body.recommendations[i].userId = resp'.event.sub
     /\ (/\ resp' # resp
         /\ resp'.op = "updateRecommendation"
         /\ resp'.r.statusCode = 200)
        => resp'.r.body.recommendation.userId = resp'.event.sub
     /\ store' # store
        => \A r \in (store \ store') \cup (store' \ store) :
             r.userId = IF upd.pc = "got" THEN upd.event.sub ELSE del.event.sub]_vars

C18_Witness ==
  /\ resp.op = "deleteRecommendations"
  /\ resp.event.sub = Str("U1")
  /\ resp.r.statusCode = 200
  /\ resp.r.body.deletedCount = 2
  /\ Cardinality(store) = 1
  /\ \A r \in store : r.userId = Str("U2")

\* the tags a query lists: the parts of the comma-separated string, trimmed, not empty
ListedTags(q) ==
  {Trimmed(q.tags.parts[i]) : i \in {j \in DOMAIN q.tags.parts : q.tags.parts[j].core > 0}}

HasListedTag(r, q) ==
  IsArray(r.tags) /\ \E i \in DOMAIN r.tags.v : r.tags.v[i] \in ListedTags(q)

Returned(r) == {r.body.recommendations[i] : i \in DOMAIN r.body.recommendations}

\* C20: a search whose tags filter lists several tags, and that has no text filter,
\* returns exactly those Records of the caller that contain at least one listed
\* tag and match the feedbackType and completed filters supplied
C20_TagsAny ==
  (/\ resp.op = "searchRecommendations"
   /\ resp.r.statusCode = 200
   /\ resp.event.queryStringParameters # Null
   /\ resp.event.queryStringParameters.tags # Undefined
   /\ Cardinality(ListedTags(resp.event.queryStringParameters)) >= 2
   /\ resp.event.queryStringParameters.search = Undefined)
  => LET q == resp.event.queryStringParameters IN
     Returned(resp.r)
       = {r \in store :
            /\ r.userId = resp.event.sub
            /\ HasListedTag(r, q)
            /\ q.feedbackType # Undefined => r.feedbackType = q.feedbackType
            /\ q.completed = Str("true") => r.completed = Bool(TRUE)
            /\ q.completed = Str("false") => r.completed = Bool(FALSE)}

C20_Witness ==
  /\ resp.op = "searchRecommendations"
  /\ resp.r.statusCode = 200
  /\ resp.event.sub = Str("U1")
  /\ resp.event.queryStringParameters # Null
  /\ resp.event.queryStringParameters.tags # Undefined
  /\ ListedTags(resp.event.queryStringParameters) = {Str("a"), Str("b")}
  /\ resp.event.queryStringParameters.search = Undefined
  /\ resp.event.queryStringParameters.completed = Undefined
  /\ resp.event.queryStringParameters.fromDate = Undefined
  /\ Cardinality(store) = 3
  /\ resp.r.body.count = 1
  /\ resp.r.body.recommendations[1].tags = Arr(<<Str("b"), Str("c")>>)

----------------------------------------------------------------------------
\* Properties of bulk delete (SpecDelete)

BatchWrites(r) == SelectSeq(r.calls, LAMBDA c : c.api = "BatchWrite")

\* C19: the bulk delete of an owner with n Records, every call succeeding, makes
\* ceil(n/25) BatchWrite calls of 1 to 25 keys in which each key of the owner occurs
\* exactly once and no other key occurs, answers deletedCount = n and leaves the
\* owner without Records and the other Records in place; with n = 0 it makes no
\* BatchWrite call, answers 200 with deletedCount = 0 and leaves the table as it is
C19_BulkDelete ==
  [][/\ (del.pc = "idle" /\ del'.pc = "loop")
        => /\ Len(del'.Items) = Cardinality(ItemsOf(store, del'.event.sub))
           /\ {del'.Items[i] : i \in DOMAIN del'.Items}
                = {KeyOf(r) : r \in ItemsOf(store, del'.event.sub)}
           /\ store' = store
     /\ (/\ del.pc = "idle"
         /\ resp' # resp
         /\ resp'.op = "deleteRecommendations"
         /\ resp'.r.statusCode = 200)
        => /\ ItemsOf(store, resp'.event.sub) = {}
           /\ resp'.r.body.deletedCount = 0
           /\ BatchWrites(resp'.r) = <<>>
           /\ store' = store
     /\ (del.pc = "loop" /\ del'.pc = "idle" /\ resp'.r.statusCode = 200)
        => LET n == Len(del.Items)
               writes == BatchWrites(resp'.r)
           IN /\ Len(writes) = (n + 24) \div 25
              /\ \A j \in DOMAIN writes : Len(writes[j].arg) >= 1 /\ Len(writes[j].arg) <= 25
              /\ \A k \in DOMAIN del.Items :
                   Cardinality({<<j, i>> \in (DOMAIN writes) \X (1..25) :
                                  i <= Len(writes[j].arg) /\ writes[j].arg[i] = del.Items[k]}) = 1
              /\ \A j \in DOMAIN writes : \A i \in DOMAIN writes[j].arg :
                   \E k \in DOMAIN del.Items : writes[j].arg[i] = del.Items[k]
              /\ resp'.r.body.deletedCount = n
              /\ ItemsOf(store', del.event.sub) = {}
              /\ \A r \in store : r.userId # del.event.sub => r \in store']_vars

C19_Witness ==
  /\ resp.op = "deleteRecommendations"
  /\ resp.event.sub = Str("U1")
  /\ resp.r.statusCode = 200
  /\ resp.r.body.deletedCount = 57
  /\ Len(BatchWrites(resp.r)) = 3
  /\ Len(BatchWrites(resp.r)[1].arg) = 25
  /\ Len(BatchWrites(resp.r)[2].arg) = 25
  /\ Len(BatchWrites(resp.r)[3].arg) = 7
  /\ store = {RecordAt("U2", 1)}

----------------------------------------------------------------------------
\* Properties of list and search with the table service available (SpecQuery)

\* r satisfies every store-level filter the query supplies
Satisfies(r, q) ==
  /\ (q.fromDate # Undefined /\ "epoch" \in DOMAIN q.fromDate) => r.timestamp.v >= q.fromDate.epoch
  /\ (q.toDate # Undefined /\ "epoch" \in DOMAIN q.toDate) => r.timestamp.v <= q.toDate.epoch
  /\ q.feedbackType # Undefined => r.feedbackType = q.feedbackType
  /\ q.completed = Str("true") => r.completed = Bool(TRUE)
  /\ q.completed = Str("false") => r.completed = Bool(FALSE)
  /\ (q.tags # Undefined /\ ListedTags(q) # {}) => HasListedTag(r, q)

SuppliesFilter(q) ==
  \E f \in {"fromDate", "toDate", "feedbackType", "completed", "tags"} : q[f] # Undefined

\* C21 as stated: a search of a caller that supplies filters and no search string is
\* answered 200 with exactly the caller's Records that satisfy every supplied
\* filter, a date that does not parse counting as absent, and count is their number
C21_AsStated ==
  (/\ resp.op = "searchRecommendations"
   /\ ~AbsentIdentity(resp.event.sub)
   /\ resp.event.queryStringParameters # Null
   /\ resp.event.queryStringParameters.search = Undefined
   /\ SuppliesFilter(resp.event.queryStringParameters))
  => /\ resp.r.statusCode = 200
     /\ Returned(resp.r)
          = {r \in store : r.userId = resp.event.sub
                           /\ Satisfies(r, resp.event.queryStringParameters)}
     /\ resp.r.body.count = Len(resp.r.body.recommendations)
     /\ resp.r.body.count = Cardinality(Returned(resp.r))

\* the query has a search string that is not blank
HasSearchText(q) == q.search # Undefined /\ q.search.core > 0

\* the answer of List-all to the same caller on the same table
ListAll(sub) == getRecommendations([sub |-> sub], store, TRUE)

\* C22 as stated: a search with a search string that is not blank is answered with
\* exactly the Records that pass the store-level filters and whose recommendations
\* or original text contain the string ignoring case; a search with an absent or
\* blank search string and no filters is answered with the Records of List-all in
\* the same order
C22_AsStated ==
  (resp.op = "searchRecommendations" /\ ~AbsentIdentity(resp.event.sub))
  => LET q == IF resp.event.queryStringParameters = Null THEN NoQuery
              ELSE resp.event.queryStringParameters
     IN /\ resp.r.statusCode = 200
        /\ HasSearchText(q)
             => Returned(resp.r)
                  = {r \in store : /\ r.userId = resp.event.sub
                                   /\ Satisfies(r, q)
                                   /\ TextMatches(r, q.search)}
        /\ (~HasSearchText(q) /\ ~SuppliesFilter(q))
             => resp.r.body.recommendations = ListAll(resp.event.sub).body.recommendations

\* C23: List-all of a caller is answered 200 with every Record of the caller in the
\* table, each once, in strictly descending order of timestamp, and count is the
\* number of Records returned
C23_ListAll ==
  (resp.op = "getRecommendations" /\ ~AbsentIdentity(resp.event.sub))
  => /\ resp.r.statusCode = 200
     /\ Returned(resp.r) = {r \in store : r.userId = resp.event.sub}
     /\ Len(resp.r.body.recommendations) = Cardinality(Returned(resp.r))
     /\ resp.r.body.count = Len(resp.r.body.recommendations)
     /\ \A i, j \in DOMAIN resp.r.body.recommendations :
          i < j => resp.r.body.recommendations[i].timestamp.v
                     > resp.r.body.recommendations[j].timestamp.v

C23_Witness ==
  /\ resp.op = "getRecommendations"
  /\ resp.event.sub = Str("U1")
  /\ resp.r.statusCode = 200
  /\ resp.r.body.count = 2
  /\ resp.r.body.recommendations[1].timestamp = Num(2)
  /\ resp.r.body.recommendations[2].timestamp = Num(1)
  /\ Cardinality(store) = 3

----------------------------------------------------------------------------
\* End to end (SpecEndToEnd)

\* the worker persists the message in this step, the model having answered response
Persists(response) == ProcessRecord(response, TRUE) /\ puts' # puts

\* the write of an Update that is answered 200
UpdateSucceeds == UpdateWrites /\ resp'.r.statusCode = 200

\* after a valid array of k items the Record of the submitter has k recommendations
\* and completed = false
RecordOfSubmission ==
  \A response \in ValidArrays :
    Persists(response)
    => \E r \in store' :
         /\ r.userId = MessageOf(msgs[batch[idx]].body).userId
         /\ r.timestamp = MessageOf(msgs[batch[idx]].body).timestamp
         /\ \E event \in PlainEvents : r.userId = event.sub
         /\ Len(r.recommendations.v) = Len(JsonParse(response.payload).v)
         /\ r.completed = Bool(FALSE)
         /\ r.generatedAt = IsoString(now)

\* C24 as stated: the worker's Record has the k items and completed = false, and
\* Update {completed: true} on its key returns it with completed = true and an
\* updatedAt strictly greater than generatedAt
C24_AsStated ==
  [][/\ RecordOfSubmission
     /\ UpdateSucceeds
        => /\ resp'.r.body.recommendation.completed = Bool(TRUE)
           /\ resp'.r.body.recommendation.updatedAt.v
                > resp'.r.body.recommendation.generatedAt.v]_vars

\* C24 amended: the worker's Record has the k items and completed = false, and
\* Update {completed: true} on its key returns it, as it is stored, with completed =
\* true and updatedAt the clock reading of the update: not less than generatedAt,
\* and greater exactly when the clock advanced since the worker wrote the Record
C24_EndToEnd ==
  [][/\ RecordOfSubmission
     /\ UpdateSucceeds
        => /\ resp'.r.body.recommendation \in store'
           /\ resp'.r.body.recommendation.userId = resp'.event.sub
           /\ resp'.r.body.recommendation.completed = Bool(TRUE)
           /\ resp'.r.body.recommendation.updatedAt = IsoString(now)
           /\ resp'.r.body.recommendation.updatedAt.v
                >= resp'.r.body.recommendation.generatedAt.v]_vars

C24_Witness ==
  /\ resp.op = "updateRecommendation"
  /\ resp.r.statusCode = 200
  /\ puts = <<1>>
  /\ msgs[1].loc = "deleted"
  /\ resp.r.body.recommendation \in store
  /\ resp.r.body.recommendation.completed = Bool(TRUE)
  /\ Len(resp.r.body.recommendation.recommendations.v) = 2
  /\ resp.r.body.recommendation.updatedAt.v > resp.r.body.recommendation.generatedAt.v

----------------------------------------------------------------------------
\* Structured responses (SpecRequest)

StatusCodes ==
  [postFeedback |-> {202, 400, 401, 500},
   getRecommendations |-> {200, 401, 500},
   searchRecommendations |-> {200, 401, 500},
   updateRecommendation |-> {200, 400, 401, 404, 500},
   deleteRecommendations |-> {200, 401, 500}]

\* a request is being handled or was answered
Handling == resp.op # "none" \/ upd.pc # "idle" \/ del.pc # "idle"

\* C25: submit, list, search, update and bulk delete answer every input and every
\* failure of the store or channel client with a response whose status code is one of
\* 200, 202, 400, 401, 404, 500 (each handler within its own codes); a handler that
\* has finished has answered; and every failure response has an error and a message
C25_Structured ==
  /\ resp.op # "none"
     => /\ resp.op \in DOMAIN StatusCodes
        /\ DOMAIN resp.r = {"statusCode", "body", "calls"}
        /\ resp.r.statusCode \in StatusCodes[resp.op]
        /\ resp.r.statusCode \in {200, 202, 400, 401, 404, 500}
        /\ resp.r.statusCode >= 400 => {"error", "message"} \subseteq DOMAIN resp.r.body
        /\ resp.r.statusCode < 400 => "error" \notin DOMAIN resp.r.body
        /\ upd.pc = "idle" /\ del.pc = "idle"
  /\ ~Handling => msgs = <<>> /\ store \subseteq StoreItems

\* a bulk delete answered 500 after the store client failed on a later batch
C25_Witness ==
  /\ resp.op = "deleteRecommendations"
  /\ resp.r.statusCode = 500
  /\ {"error", "message"} \subseteq DOMAIN resp.r.body
  /\ \E i \in DOMAIN resp.r.calls : ~resp.r.calls[i].ok

----------------------------------------------------------------------------
\* Concurrent worker invocations (SpecTimed)

\* C26 as stated: no message is being processed by two worker invocations at once
C26_AsStated ==
  \A v, w \in DOMAIN workers :
    v # w /\ workers[v].pc = "running" /\ workers[w].pc = "running"
    => workers[v].ids \cap workers[w].ids = {}

----------------------------------------------------------------------------
\* Every message leaves the queue (FairSpec)

Left(id) == id \in DOMAIN msgs /\ msgs[id].loc \in {"deleted", "dlq"}

\* C27: under fair delivery every message in FeedbackQueue is eventually either
\* deleted after its batch's invocation returned or moved to FeedbackDLQ, and then
\* stays so
C27_Leaves ==
  \A id \in 1..MaxMsgs : (id \in DOMAIN msgs) ~> [](Left(id))

\* one message was acknowledged and another one was moved to the dead-letter queue
\* after three failed invocations
C27_Witness ==
  \E i, j \in DOMAIN msgs :
    /\ msgs[i].loc = "deleted"
    /\ msgs[j].loc = "dlq" /\ msgs[j].rc = maxReceiveCount
    /\ wend = "returned"

----------------------------------------------------------------------------
\* Healthy messages and the dead-letter queue (Spec)

\* every delivery of the message ended in a successful put of its item, so its own
\* processing never raised
AlwaysSaved(id) == msgs[id].rc >= 1 /\ puts[id] = msgs[id].rc

\* C28 as stated: a message whose own processing never raises is never moved to
\* FeedbackDLQ, whichever messages it is batched with; in particular no message that
\* was saved at every one of its deliveries is in FeedbackDLQ
C28_AsStated ==
  \A id \in DOMAIN msgs : AlwaysSaved(id) => msgs[id].loc # "dlq"

----------------------------------------------------------------------------
\* Bulk delete under concurrency (SpecDeletes)

\* C29 as stated: a bulk delete that returns success with deletedCount = n, here
\* after one BatchWrite, has itself removed n Records from the store, and leaves the
\* owner no Record that its key query had found
C29_AsStated ==
  [][(del.pc = "loop" /\ del.i = 0 /\ del'.pc = "idle" /\ resp'.r.statusCode = 200)
       => /\ resp'.r.body.deletedCount = Cardinality(store \ store')
          /\ \A r \in ItemsOf(store', del.event.sub) :
               \A k \in DOMAIN del.Items : KeyOf(r) # del.Items[k]]_vars

----------------------------------------------------------------------------
\* The type of completed (SpecRequest)

\* C30 as stated: the completed field of every stored Record is a boolean
C30_AsStated ==
  \A r \in store : "completed" \in DOMAIN r /\ r.completed \in {Bool(TRUE), Bool(FALSE)}

====
